---- MODULE Spec2Model ----
(***************************************************************************)
(* TesseraKit/Core identifiers: the Crockford base-32 codec, the ULID      *)
(* generator, the monotonic ULID sequencer and the URN composer/parser.    *)
(*                                                                         *)
(* A JavaScript string is a sequence of one-character strings; strings are *)
(* ordered as JavaScript orders them, by UTF-16 code unit.  A JavaScript   *)
(* number (an integer below 2^53) is a pair <<hi, lo>> standing for        *)
(* hi * 2^25 + lo with 0 <= lo < 2^25, because timestamps range over      *)
(* 0 .. 2^48-1 and decoded values over 0 .. 2^50-1.                        *)
(***************************************************************************)
EXTENDS Integers, Sequences, FiniteSets, TLC

(***************************************************************************)
(* Bounds of the model.                                                    *)
(***************************************************************************)
\* total number of calls made on the monotonic generators in one behaviour
MaxCalls == 3
\* timestamps 0 .. MaxSmallTime are all among the sampled timestamps
MaxSmallTime == 2
\* item counts, page sizes and offsets of createPaginationMeta
MaxItems == 7

(***************************************************************************)
(* Characters and strings.                                                 *)
(***************************************************************************)
\* the characters with code units 45 ('-') .. 122 ('z'), in code-unit order
\* (code units 92 and 96 are written out by name)
AsciiTable ==
  << "-", ".", "/",
     "0", "1", "2", "3", "4", "5", "6", "7", "8", "9",
     ":", ";", "<", "=", ">", "?", "@",
     "A", "B", "C", "D", "E", "F", "G", "H", "I", "J", "K", "L", "M",
     "N", "O", "P", "Q", "R", "S", "T", "U", "V", "W", "X", "Y", "Z",
     "[", "BACKSLASH", "]", "^", "_", "BACKTICK",
     "a", "b", "c", "d", "e", "f", "g", "h", "i", "j", "k", "l", "m",
     "n", "o", "p", "q", "r", "s", "t", "u", "v", "w", "x", "y", "z" >>

Char == { AsciiTable[i] : i \in DOMAIN AsciiTable }

\* the UTF-16 code unit of a character
CharCodeTable ==
  [c \in Char |-> 44 + (CHOOSE i \in DOMAIN AsciiTable : AsciiTable[i] = c)]

CharCode(c) == CharCodeTable[c]

IsLower(c) == CharCode(c) >= 97 /\ CharCode(c) <= 122
IsUpper(c) == CharCode(c) >= 65 /\ CharCode(c) <= 90
IsDigit(c) == CharCode(c) >= 48 /\ CharCode(c) <= 57

\* String.prototype.toUpperCase on one character
ToUpperChar(c) == IF IsLower(c) THEN AsciiTable[CharCode(c) - 32 - 44] ELSE c

\* String.prototype.toLowerCase on one character
ToLowerChar(c) == IF IsUpper(c) THEN AsciiTable[CharCode(c) + 32 - 44] ELSE c

ToUpperCase(s) == [i \in 1..Len(s) |-> ToUpperChar(s[i])]
ToLowerCase(s) == [i \in 1..Len(s) |-> ToLowerChar(s[i])]

\* the string made of n copies of the character c
Repeat(c, n) == [i \in 1..n |-> c]

\* JavaScript a < b on strings: the first differing code unit decides, and a
\* proper prefix is smaller
RECURSIVE StrLessFrom(_, _, _)
StrLessFrom(a, b, i) ==
  IF i > Len(b) THEN FALSE
  ELSE IF i > Len(a) THEN TRUE
  ELSE IF a[i] = b[i] THEN StrLessFrom(a, b, i + 1)
  ELSE CharCode(a[i]) < CharCode(b[i])

StrLess(a, b) == StrLessFrom(a, b, 1)

(***************************************************************************)
(* Numbers: <<hi, lo>> is hi * LimbBase + lo.                              *)
(***************************************************************************)
LimbBase == 32 * 32 * 32 * 32 * 32

Num(hi, lo) == <<hi, lo>>
Zero == Num(0, 0)

NumLess(a, b) == a[1] < b[1] \/ (a[1] = b[1] /\ a[2] < b[2])

\* remaining % 32
NumMod32(a) == a[2] % 32

\* Math.floor(remaining / 32)
NumDiv32(a) ==
  Num(a[1] \div 32, (a[1] % 32) * (LimbBase \div 32) + (a[2] \div 32))

\* timestamp * 32 + d
NumMul32Add(a, d) ==
  Num(a[1] * 32 + (a[2] \div (LimbBase \div 32)),
      (a[2] % (LimbBase \div 32)) * 32 + d)

(***************************************************************************)
(* id/ulid/constants                                                       *)
(***************************************************************************)
\* the base-32 alphabet that keeps I, L, O and U
ENCODING_Base32Hex ==
  << "0", "1", "2", "3", "4", "5", "6", "7", "8", "9",
     "A", "B", "C", "D", "E", "F", "G", "H", "I", "J", "K", "L", "M", "N",
     "O", "P", "Q", "R", "S", "T", "U", "V" >>

ENCODING ==
  << "0", "1", "2", "3", "4", "5", "6", "7", "8", "9",
     "A", "B", "C", "D", "E", "F", "G", "H", "J", "K", "M", "N", "P", "Q",
     "R", "S", "T", "V", "W", "X", "Y", "Z" >>

TIME_LENGTH == 10
RANDOM_LENGTH == 16
ULID_LENGTH == TIME_LENGTH + RANDOM_LENGTH

\* Math.pow(2, 48) - 1
TIME_MAX == Num((2^23) - 1, LimbBase - 1)

\* the character class [0-9A-HJKMNP-TV-Z] under the flag i: a character
\* matches when its upper-case form lies in one of the ranges
UlidClassChar(c) ==
  LET u == CharCode(ToUpperChar(c)) IN
    \/ u >= CharCode("0") /\ u <= CharCode("9")
    \/ u >= CharCode("A") /\ u <= CharCode("H")
    \/ u = CharCode("J") \/ u = CharCode("K")
    \/ u = CharCode("M") \/ u = CharCode("N")
    \/ u >= CharCode("P") /\ u <= CharCode("T")
    \/ u >= CharCode("V") /\ u <= CharCode("Z")

\* ULID_PATTERN.test(s) for /^[0-9A-HJKMNP-TV-Z]{26}$/i
ULID_PATTERN(s) ==
  Len(s) = ULID_LENGTH /\ \A i \in 1..Len(s) : UlidClassChar(s[i])

(***************************************************************************)
(* Outcomes of a call: a returned value or a thrown error.                 *)
(***************************************************************************)
Ok(v) == [ok |-> TRUE, val |-> v]
Throw(e) == [ok |-> FALSE, err |-> e]

\* an optional argument: supplied or undefined
Some(v) == [some |-> TRUE, v |-> v]
None == [some |-> FALSE]

(***************************************************************************)
(* id/ulid/encoding                                                        *)
(***************************************************************************)
\* ENCODING.indexOf(c): the 0-based index, -1 when absent
IndexOfTable ==
  [c \in Char |->
     IF \E i \in DOMAIN ENCODING : ENCODING[i] = c
       THEN (CHOOSE i \in DOMAIN ENCODING : ENCODING[i] = c) - 1
       ELSE -1]

IndexOf(c) == IndexOfTable[c]

\* encodeTime's loop appending each digit where the code prepends it
RECURSIVE EncodeDigitsAppend(_, _)
EncodeDigitsAppend(remaining, length) ==
  IF length = 0 THEN << >>
  ELSE << ENCODING[NumMod32(remaining) + 1] >>
         \o EncodeDigitsAppend(NumDiv32(remaining), length - 1)

\* encodeTime's loop stopping at the leading zeros instead of padding to
\* length
RECURSIVE EncodeDigitsUnpadded(_, _)
EncodeDigitsUnpadded(remaining, length) ==
  IF length = 0 \/ remaining = Zero THEN << >>
  ELSE EncodeDigitsUnpadded(NumDiv32(remaining), length - 1)
         \o << ENCODING[NumMod32(remaining) + 1] >>

\* the loop of encodeTime: length symbols, least significant digit last
RECURSIVE EncodeDigits(_, _)
EncodeDigits(remaining, length) ==
  IF length = 0 THEN << >>
  ELSE EncodeDigits(NumDiv32(remaining), length - 1)
         \o << ENCODING[NumMod32(remaining) + 1] >>

encodeTime(timestamp, length) ==
  IF NumLess(timestamp, Zero) \/ NumLess(TIME_MAX, timestamp)
    THEN Throw("RangeError")
    ELSE Ok(EncodeDigits(timestamp, length))

\* encodeRandom(length), bytes being the buffer getRandomValues(length) fills
encodeRandom(bytes, length) ==
  [i \in 1..length |-> ENCODING[(bytes[i] % 32) + 1]]

\* characters beyond the table: U+0131 (dotless i) and U+017F (long s), the
\* two characters outside ASCII whose upper-case form is an ASCII letter, and
\* U+212A (Kelvin sign), which is its own upper-case form
DOTLESS_I == "DOTLESS_I"
LONG_S == "LONG_S"
KELVIN_SIGN == "KELVIN_SIGN"

\* char.toUpperCase() in decodeChar, char being one character: the Unicode
\* upper-case mapping
CharToUpperCase(char) ==
  IF char = DOTLESS_I THEN "I"
  ELSE IF char = LONG_S THEN "S"
  ELSE IF char \in Char THEN ToUpperChar(char)
  ELSE char

decodeChar(char) ==
  LET upper == CharToUpperCase(char) IN
    IF upper = "I" \/ upper = "L" THEN Ok(1)
    ELSE IF upper = "O" THEN Ok(0)
    ELSE IF upper = "U" THEN Ok(27)
    ELSE IF upper \notin Char \/ IndexOf(upper) = -1 THEN Throw("Error")
    ELSE Ok(IndexOf(upper))

\* the loop of decodeTime from position i on; reading past the end of the
\* string hands undefined to decodeChar, a TypeError
RECURSIVE DecodeFrom(_, _, _)
DecodeFrom(timeChars, i, timestamp) ==
  IF i > TIME_LENGTH THEN Ok(timestamp)
  ELSE IF i > Len(timeChars) THEN Throw("TypeError")
  ELSE LET d == decodeChar(timeChars[i]) IN
         IF ~d.ok THEN d
         ELSE DecodeFrom(timeChars, i + 1, NumMul32Add(timestamp, d.val))

decodeTime(ulid) ==
  DecodeFrom(SubSeq(ulid, 1, IF Len(ulid) < TIME_LENGTH THEN Len(ulid)
                                ELSE TIME_LENGTH), 1, Zero)

(***************************************************************************)
(* id/ulid/api                                                             *)
(***************************************************************************)
\* Ulid.generate(timestamp), now being what Date.now() returns and bytes
\* what the random source returns
UlidGenerate(timestamp, now, bytes) ==
  LET time == IF timestamp.some THEN timestamp.v ELSE now
      t == encodeTime(time, TIME_LENGTH) IN
    IF ~t.ok THEN t ELSE Ok(t.val \o encodeRandom(bytes, RANDOM_LENGTH))

UlidIsValid(value) == ULID_PATTERN(value)

UlidTimestamp(ulid) == decodeTime(ulid)

\* Ulid.compare with the two outcomes of a < b exchanged
UlidCompareReversed(a, b) ==
  IF a = b THEN 0 ELSE IF StrLess(a, b) THEN 1 ELSE -1

UlidCompare(a, b) == IF a = b THEN 0 ELSE IF StrLess(a, b) THEN -1 ELSE 1

\* the increment loop of the generator Ulid.monotonic returns, from position
\* i (1-based) leftwards: a digit below the last symbol is replaced by the
\* next symbol and the loop stops, any other digit becomes ENCODING[0] and
\* the loop goes on; running off the left end ends the loop
RECURSIVE IncrementNoReset(_, _)
IncrementNoReset(chars, i) ==
  IF i < 1 THEN chars
  ELSE LET index == IndexOf(chars[i]) IN
         IF index < 31
           THEN [chars EXCEPT ![i] = ENCODING[index + 2]]
           ELSE IncrementNoReset(chars, i - 1)

RECURSIVE Increment(_, _)
Increment(chars, i) ==
  IF i < 1 THEN chars
  ELSE LET index == IndexOf(chars[i]) IN
         IF index < 31
           THEN [chars EXCEPT ![i] = ENCODING[index + 2]]
           ELSE Increment([chars EXCEPT ![i] = ENCODING[1]], i - 1)

\* the generator taking every clock value up to lastTime for the same
\* millisecond
MonotonicCallNoRegress(lt, lr, now, bytes) ==
  LET sameMs == ~NumLess(lt, now)
      newTime == IF sameMs THEN lt ELSE now
      newRandom == IF sameMs THEN Increment(lr, Len(lr))
                   ELSE encodeRandom(bytes, RANDOM_LENGTH)
      t == encodeTime(now, TIME_LENGTH)
  IN [lastTime |-> newTime,
      lastRandom |-> newRandom,
      out |-> IF t.ok THEN Ok(t.val \o newRandom) ELSE t]

\* one call of the generator Ulid.monotonic returns, on the generator's state
\* (lt, lr), now being what Date.now() returns and bytes what the random
\* source would return: the new state and the outcome
MonotonicCall(lt, lr, now, bytes) ==
  LET sameMs == (now = lt)
      newTime == IF sameMs THEN lt ELSE now
      newRandom == IF sameMs THEN Increment(lr, Len(lr))
                   ELSE encodeRandom(bytes, RANDOM_LENGTH)
      t == encodeTime(now, TIME_LENGTH)
  IN [lastTime |-> newTime,
      lastRandom |-> newRandom,
      out |-> IF t.ok THEN Ok(t.val \o newRandom) ELSE t]

(***************************************************************************)
(* id/urn/constants                                                        *)
(***************************************************************************)
\* the class [a-z]; under the flag i a character matches when its lower-case
\* form lies in the range
LowerClassChar(c, ignoreCase) ==
  IsLower(IF ignoreCase THEN ToLowerChar(c) ELSE c)

\* [a-z][a-z0-9]{0,31} against the whole of s
AppSegment(s, ignoreCase) ==
  /\ Len(s) >= 1 /\ Len(s) <= 1 + 31
  /\ LowerClassChar(s[1], ignoreCase)
  /\ \A i \in 2..Len(s) : LowerClassChar(s[i], ignoreCase) \/ IsDigit(s[i])

\* [a-z][a-z0-9-]{0,63} against the whole of s
EntitySegment(s, ignoreCase) ==
  /\ Len(s) >= 1 /\ Len(s) <= 1 + 63
  /\ LowerClassChar(s[1], ignoreCase)
  /\ \A i \in 2..Len(s) :
       LowerClassChar(s[i], ignoreCase) \/ IsDigit(s[i]) \/ s[i] = "-"

\* APP_PATTERN.test(s) for /^[a-z][a-z0-9]{0,31}$/
APP_PATTERN(s) == AppSegment(s, FALSE)

\* ENTITY_PATTERN.test(s) for /^[a-z][a-z0-9-]{0,63}$/
ENTITY_PATTERN(s) == EntitySegment(s, FALSE)

\* URN_PATTERN.test(s): the three segments joined by ':' in a RegExp built
\* with the flag "i", the last segment being ULID_PATTERN's source between
\* its anchors
URN_PATTERN(s) ==
  \E i, j \in 1..Len(s) :
    /\ i < j /\ s[i] = ":" /\ s[j] = ":"
    /\ AppSegment(SubSeq(s, 1, i - 1), TRUE)
    /\ EntitySegment(SubSeq(s, i + 1, j - 1), TRUE)
    /\ ULID_PATTERN(SubSeq(s, j + 1, Len(s)))

(***************************************************************************)
(* id/urn/api                                                              *)
(***************************************************************************)
\* new UrnError(message, code, value), thrown
UrnError(code, value) ==
  [ok |-> FALSE, err |-> "UrnError", code |-> code, value |-> value]

\* s.split(":")
RECURSIVE SplitFrom(_, _)
SplitFrom(s, start) ==
  LET colons == { i \in start..Len(s) : s[i] = ":" } IN
    IF colons = {} THEN << SubSeq(s, start, Len(s)) >>
    ELSE LET i == CHOOSE k \in colons : \A j \in colons : k <= j IN
           << SubSeq(s, start, i - 1) >> \o SplitFrom(s, i + 1)

Split(s) == SplitFrom(s, 1)

UrnIsValid(value) == URN_PATTERN(value)

\* Urn.create without the test of the entity name
UrnCreateAppOnly(app, entity, options, now, bytes) ==
  IF ~APP_PATTERN(app)
    THEN [generated |-> FALSE] @@ UrnError("INVALID_APP", app)
  ELSE IF options.id.some
    THEN [generated |-> FALSE]
           @@ Ok(app \o <<":">> \o entity \o <<":">> \o options.id.v)
  ELSE LET id == UlidGenerate(options.timestamp, now, bytes) IN
         [generated |-> TRUE]
           @@ (IF id.ok THEN Ok(app \o <<":">> \o entity \o <<":">> \o id.val)
               ELSE id)

\* Urn.create calling Ulid.generate() without options.timestamp
UrnCreateIgnoresTimestamp(app, entity, options, now, bytes) ==
  IF ~APP_PATTERN(app)
    THEN [generated |-> FALSE] @@ UrnError("INVALID_APP", app)
  ELSE IF ~ENTITY_PATTERN(entity)
    THEN [generated |-> FALSE] @@ UrnError("INVALID_ENTITY", entity)
  ELSE IF options.id.some
    THEN [generated |-> FALSE]
           @@ Ok(app \o <<":">> \o entity \o <<":">> \o options.id.v)
  ELSE LET id == UlidGenerate(None, now, bytes) IN
         [generated |-> TRUE]
           @@ (IF id.ok THEN Ok(app \o <<":">> \o entity \o <<":">> \o id.val)
               ELSE id)

\* Urn.create testing the entity before the app
UrnCreateEntityFirst(app, entity, options, now, bytes) ==
  IF ~ENTITY_PATTERN(entity)
    THEN [generated |-> FALSE] @@ UrnError("INVALID_ENTITY", entity)
  ELSE IF ~APP_PATTERN(app)
    THEN [generated |-> FALSE] @@ UrnError("INVALID_APP", app)
  ELSE IF options.id.some
    THEN [generated |-> FALSE]
           @@ Ok(app \o <<":">> \o entity \o <<":">> \o options.id.v)
  ELSE LET id == UlidGenerate(options.timestamp, now, bytes) IN
         [generated |-> TRUE]
           @@ (IF id.ok THEN Ok(app \o <<":">> \o entity \o <<":">> \o id.val)
               ELSE id)

\* Urn.create(app, entity, options); options is [id, timestamp], each
\* supplied or undefined.  generated tells whether Ulid.generate was called.
UrnCreate(app, entity, options, now, bytes) ==
  IF ~APP_PATTERN(app)
    THEN [generated |-> FALSE] @@ UrnError("INVALID_APP", app)
  ELSE IF ~ENTITY_PATTERN(entity)
    THEN [generated |-> FALSE] @@ UrnError("INVALID_ENTITY", entity)
  ELSE IF options.id.some
    THEN [generated |-> FALSE]
           @@ Ok(app \o <<":">> \o entity \o <<":">> \o options.id.v)
  ELSE LET id == UlidGenerate(options.timestamp, now, bytes) IN
         [generated |-> TRUE]
           @@ (IF id.ok THEN Ok(app \o <<":">> \o entity \o <<":">> \o id.val)
               ELSE id)

UrnParse(urn) ==
  IF ~UrnIsValid(urn) THEN UrnError("INVALID_URN", urn)
  ELSE LET parts == Split(urn) IN
         Ok([app |-> parts[1], entity |-> parts[2], id |-> parts[3]])

\* Urn.parseEffect failing with the code Urn.parse uses
UrnParseEffectSameCode(value) ==
  IF UrnIsValid(value)
    THEN LET p == UrnParse(value) IN IF p.ok THEN Ok(p.val) ELSE p
    ELSE UrnError("INVALID_URN", value)

\* Urn.parseEffect(value), run: Ok is the success channel, a UrnError the
\* failure channel
UrnParseEffect(value) ==
  IF UrnIsValid(value)
    THEN LET p == UrnParse(value) IN IF p.ok THEN Ok(p.val) ELSE p
    ELSE UrnError("PARSE_ERROR", value)

\* Urn.parseSafe(value): the Option returned
UrnParseSafe(value) ==
  IF ~UrnIsValid(value) THEN Ok(None)
  ELSE LET p == UrnParse(value) IN IF p.ok THEN Ok(Some(p.val)) ELSE p

\* Urn.forApp without the test of the app name
UrnForAppUnchecked(app) == Ok([app |-> app])

\* Urn.forApp(app): the closure returned is the record of what it captured
UrnForApp(app) ==
  IF ~APP_PATTERN(app) THEN UrnError("INVALID_APP", app)
  ELSE Ok([app |-> app])

\* the closure Urn.forApp returned, called with (entity, options)
ForAppClosure(closure, entity, options, now, bytes) ==
  UrnCreate(closure.app, entity, options, now, bytes)

\* Ulid.generateEffect(timestamp), run: Effect.sync turns what Ulid.generate
\* throws into a defect of the effect
UlidGenerateEffect(timestamp, now, bytes) ==
  LET id == UlidGenerate(timestamp, now, bytes) IN
    IF id.ok THEN id ELSE [defect |-> TRUE] @@ id

\* Urn.createEffect(app, entity, options), run: Effect.all runs validateApp
\* then validateEntity and fails with the first failure; Ulid.generateEffect
\* runs whether options.id is supplied or not
UrnCreateEffect(app, entity, options, now, bytes) ==
  IF ~APP_PATTERN(app)
    THEN [generated |-> FALSE] @@ UrnError("INVALID_APP", app)
  ELSE IF ~ENTITY_PATTERN(entity)
    THEN [generated |-> FALSE] @@ UrnError("INVALID_ENTITY", entity)
  ELSE LET id == UlidGenerateEffect(options.timestamp, now, bytes) IN
         [generated |-> TRUE]
           @@ (IF ~id.ok THEN id
               ELSE Ok(app \o <<":">> \o entity \o <<":">>
                         \o (IF options.id.some THEN options.id.v
                             ELSE id.val)))

\* Urn.id(urn): the id of Urn.parse(urn), whose failure it passes on
UrnId(urn) ==
  LET p == UrnParse(urn) IN IF p.ok THEN Ok(p.val.id) ELSE p

\* Urn.timestamp(urn)
UrnTimestamp(urn) ==
  LET id == UrnId(urn) IN IF id.ok THEN UlidTimestamp(id.val) ELSE id

\* Urn.compare(a, b); Urn.id(a) is evaluated first
UrnCompare(a, b) ==
  LET ia == UrnId(a)
      ib == UrnId(b)
  IN IF ~ia.ok THEN ia
     ELSE IF ~ib.ok THEN ib
     ELSE Ok(UlidCompare(ia.val, ib.val))

(***************************************************************************)
(* State.                                                                  *)
(*   call  the latest call of a stateless operation: its name, arguments   *)
(*         and outcome                                                     *)
(*   prev  the call made before the latest call, if any                    *)
(*   lastTime, lastRandom                                                  *)
(*         the closure variables of each generator Ulid.monotonic returned *)
(*   history                                                               *)
(*         per generator, its calls so far: the clock value read, whether  *)
(*         it equalled lastTime, lastTime and lastRandom before the call,  *)
(*         the random bytes drawn, the outcome                             *)
(* A behaviour of the stateless operations is one call, or two calls of    *)
(* which the second follows from the first; the calls do not influence     *)
(* each other.                                                             *)
(***************************************************************************)
VARIABLES call, prev, lastTime, lastRandom, history

callVars == <<call, prev>>
monoVars == <<lastTime, lastRandom, history>>
vars == <<call, prev, lastTime, lastRandom, history>>

NoCall == [op |-> "none"]

\* the generators Ulid.monotonic() has returned
Instances == {1, 2}

Init ==
  /\ call = NoCall
  /\ prev = NoCall
  /\ lastTime = [g \in Instances |-> Zero]
  /\ lastRandom = [g \in Instances |-> << >>]
  /\ history = [g \in Instances |-> << >>]

(***************************************************************************)
(* Inputs of the stateless ULID operations.                                *)
(***************************************************************************)
\* a timestamp seen in the wild: 1469918176385
DocTime == Num(43806, 32728193)

\* timestamps in 0 .. 2^48-1: the small ones, both sides of every power of
\* 32 and the top of the range
TimeSamples ==
  { Num(0, n) : n \in 0..MaxSmallTime }
    \cup { Num(0, (32^k) - 1) : k \in 1..5 }
    \cup { Num(0, 32^k) : k \in 1..4 }
    \cup { Num(32^k, 0) : k \in 0..4 }
    \cup { Num((32^k) - 1, LimbBase - 1) : k \in 1..4 }
    \cup { DocTime, Num((2^23) - 1, LimbBase - 2), TIME_MAX }

\* -1 and 2^48
OutOfRangeTimes == { Num(-1, LimbBase - 1), Num(2^23, 0) }

\* what Date.now() may return
ClockSamples == { Zero, Num(0, 1), TIME_MAX }

\* buffers of 16 random bytes: b, b+step, b+2*step, ... modulo 256
GenerateDraws ==
  { [i \in 1..RANDOM_LENGTH |-> (p[1] + (i - 1) * p[2]) % 256] :
      p \in { <<0, 0>>, <<31, 1>>, <<250, 17>>, <<255, 0>> } }

\* 10-character time portions: canonical, lower-cased, and beyond 48 bits
TimePartSamples ==
  LET canon == { encodeTime(t, TIME_LENGTH).val :
                   t \in { Zero, Num(0, 10), Num(0, 11), Num(0, 330),
                           TIME_MAX } }
  IN canon \cup { ToLowerCase(p) : p \in canon }
       \cup { Repeat("Z", TIME_LENGTH) }

RandomPartSamples ==
  { Repeat("0", RANDOM_LENGTH), Repeat("Z", RANDOM_LENGTH),
    Repeat("a", RANDOM_LENGTH) }

\* strings Ulid.isValid accepts
UlidSamples == { t \o r : t \in TimePartSamples, r \in RandomPartSamples }

\* strings Ulid.isValid is asked about
StringSamples ==
  UlidSamples
    \cup { Repeat(c, n) : c \in {"0", "I", "L", "O", "U", "i", "-", ":"},
                          n \in {0, ULID_LENGTH - 1, ULID_LENGTH,
                                 ULID_LENGTH + 1} }

(***************************************************************************)
(* The stateless ULID operations as steps.                                 *)
(***************************************************************************)
Generate ==
  \E timestamp \in { Some(t) : t \in TimeSamples \cup OutOfRangeTimes }
                     \cup { None },
     now \in ClockSamples, bytes \in GenerateDraws :
    /\ call.op \in {"none", "Ulid.generate"} /\ prev.op = "none"
    /\ timestamp.some => now = Zero
    /\ call' = [op |-> "Ulid.generate", timestamp |-> timestamp, now |-> now,
                bytes |-> bytes, out |-> UlidGenerate(timestamp, now, bytes)]
    /\ prev' = call
    /\ UNCHANGED monoVars

IsValid ==
  \E value \in StringSamples :
    /\ call.op = "none"
    /\ call' = [op |-> "Ulid.isValid", value |-> value, out |-> UlidIsValid(value)]
    /\ UNCHANGED <<prev, monoVars>>

Timestamp ==
  \E ulid \in { s \in StringSamples : UlidIsValid(s) } :
    /\ call.op = "none"
    /\ call' = [op |-> "Ulid.timestamp", ulid |-> ulid, out |-> UlidTimestamp(ulid)]
    /\ UNCHANGED <<prev, monoVars>>

Compare ==
  \E a, b \in { s \in StringSamples : UlidIsValid(s) } :
    /\ call.op = "none"
    /\ call' = [op |-> "Ulid.compare", a |-> a, b |-> b, out |-> UlidCompare(a, b)]
    /\ UNCHANGED <<prev, monoVars>>

\* the widths encodeTime is asked for: the timestamp width and others
WidthSamples == { 1, 5, TIME_LENGTH, TIME_LENGTH + 1 }

EncodeTimeCall ==
  \E timestamp \in TimeSamples \cup OutOfRangeTimes, length \in WidthSamples :
    /\ call.op = "none"
    /\ call' = [op |-> "encodeTime", timestamp |-> timestamp,
                length |-> length, out |-> encodeTime(timestamp, length)]
    /\ UNCHANGED <<prev, monoVars>>

\* the characters decodeChar is asked about
DecodeCharSamples == Char \cup { DOTLESS_I, LONG_S, KELVIN_SIGN }

DecodeCharCall ==
  \E char \in DecodeCharSamples :
    /\ call.op = "none"
    /\ call' = [op |-> "decodeChar", char |-> char, out |-> decodeChar(char)]
    /\ UNCHANGED <<prev, monoVars>>

NextUlid ==
  \/ Generate \/ IsValid \/ Timestamp \/ Compare \/ EncodeTimeCall
  \/ DecodeCharCall

SpecUlid == Init /\ [][NextUlid]_vars

\* the timestamp a generate call encodes
TimeOf(c) == IF c.timestamp.some THEN c.timestamp.v ELSE c.now

GenerateOk(c) == c.op = "Ulid.generate" /\ c.out.ok

(***************************************************************************)
(* C4: for every timestamp t in 0 .. 2^48-1 and every random draw,         *)
(* Ulid.timestamp(Ulid.generate(t)) = t.                                   *)
(***************************************************************************)
TimestampRoundTrip ==
  (call.op = "Ulid.generate" /\ ~NumLess(TimeOf(call), Zero)
     /\ ~NumLess(TIME_MAX, TimeOf(call)))
    => /\ call.out.ok
       /\ UlidTimestamp(call.out.val) = Ok(TimeOf(call))

\* a timestamp whose ten digits are all non-zero has been generated and
\* decodes to itself
TimestampRoundTripWitness ==
  /\ GenerateOk(call)
  /\ TimeOf(call) = DocTime
  /\ UlidTimestamp(call.out.val) = Ok(DocTime)

InRange(t) == ~NumLess(t, Zero) /\ ~NumLess(TIME_MAX, t)

TimePart(s) == SubSeq(s, 1, TIME_LENGTH)
RandomPart(s) == SubSeq(s, TIME_LENGTH + 1, Len(s))

(***************************************************************************)
(* C5: for every valid timestamp and every sequence of random bytes,       *)
(* Ulid.generate returns exactly 26 characters, each a symbol of ENCODING, *)
(* and Ulid.isValid accepts the result.                                    *)
(***************************************************************************)
GeneratedIsValid ==
  (call.op = "Ulid.generate" /\ InRange(TimeOf(call)))
    => /\ call.out.ok
       /\ Len(call.out.val) = 26
       /\ \A i \in 1..Len(call.out.val) : IndexOf(call.out.val[i]) >= 0
       /\ UlidIsValid(call.out.val)

\* an identifier has been generated from random bytes above 31
GeneratedIsValidWitness ==
  /\ GenerateOk(call)
  /\ \A i \in 1..RANDOM_LENGTH : call.bytes[i] > 31
  /\ UlidIsValid(call.out.val)

(***************************************************************************)
(* C6: the timestamp encoding preserves order: of two generated            *)
(* identifiers with timestamps t1 < t2, the time portion of the first is   *)
(* lexicographically smaller, and so is the whole first identifier,        *)
(* whatever the random portions.                                           *)
(***************************************************************************)
EncodingOrderPreserving ==
  (GenerateOk(prev) /\ GenerateOk(call)
     /\ NumLess(TimeOf(prev), TimeOf(call)))
    => /\ StrLess(TimePart(prev.out.val), TimePart(call.out.val))
       /\ StrLess(prev.out.val, call.out.val)

\* the identifier with the smaller timestamp has the greater random portion
\* and still sorts first
EncodingOrderPreservingWitness ==
  /\ GenerateOk(prev) /\ GenerateOk(call)
  /\ NumLess(TimeOf(prev), TimeOf(call))
  /\ StrLess(RandomPart(call.out.val), RandomPart(prev.out.val))
  /\ StrLess(prev.out.val, call.out.val)

\* what the claims about Ulid.compare say of one call: the timestamps decide,
\* and equal timestamps leave the decision to the random portions
CompareFollowsTimestamp(c) ==
  LET ta == UlidTimestamp(c.a).val
      tb == UlidTimestamp(c.b).val
      ra == RandomPart(c.a)
      rb == RandomPart(c.b)
  IN /\ NumLess(ta, tb) => c.out = -1
     /\ NumLess(tb, ta) => c.out = 1
     /\ ta = tb => c.out = (IF ra = rb THEN 0
                            ELSE IF StrLess(ra, rb) THEN -1 ELSE 1)

(***************************************************************************)
(* C7: for any two strings Ulid.isValid accepts, Ulid.compare follows the  *)
(* timestamps, ties broken by the random portions.                         *)
(***************************************************************************)
CompareConsistentWithTimestamp ==
  (call.op = "Ulid.compare" /\ UlidIsValid(call.a) /\ UlidIsValid(call.b))
    => CompareFollowsTimestamp(call)

\* on upper-case strings Ulid.isValid accepts (the form the generators
\* produce) Ulid.compare does follow the timestamps, ties broken by the
\* random portions
CompareConsistentCanonical ==
  (call.op = "Ulid.compare" /\ UlidIsValid(call.a) /\ UlidIsValid(call.b)
     /\ call.a = ToUpperCase(call.a) /\ call.b = ToUpperCase(call.b))
    => CompareFollowsTimestamp(call)

\* two upper-case identifiers, the one with the smaller timestamp carrying the
\* greater random portion, compare as -1
CompareConsistentCanonicalWitness ==
  /\ call.op = "Ulid.compare"
  /\ call.a = ToUpperCase(call.a) /\ call.b = ToUpperCase(call.b)
  /\ NumLess(UlidTimestamp(call.a).val, UlidTimestamp(call.b).val)
  /\ StrLess(RandomPart(call.b), RandomPart(call.a))
  /\ call.out = -1

(***************************************************************************)
(* The monotonic generators.                                               *)
(***************************************************************************)
\* buffers of 16 random bytes: 16-k bytes p, then k bytes q, for <<p, q, k>>;
\* they encode to 16 times '0', 16 times 'Z', and digits followed by a run
\* of 1 or 15 'Z' or '0'
MonoDraws ==
  { [i \in 1..RANDOM_LENGTH |->
       IF i <= RANDOM_LENGTH - d[3] THEN d[1] ELSE d[2]] :
      d \in { <<0, 0, 0>>, <<255, 255, 0>>, <<0, 255, 1>>, <<255, 0, 1>>,
              <<0, 255, 15>> } }

TotalCalls == Len(history[1]) + Len(history[2])

\* one call of generator g, were lastTime and lastRandom variables of the
\* module, shared by every generator
MonotonicShared(g) ==
  \E now \in ClockSamples, bytes \in MonoDraws :
    LET r == MonotonicCall(lastTime[g], lastRandom[g], now, bytes) IN
      /\ TotalCalls < MaxCalls
      /\ now = lastTime[g] => bytes = [i \in 1..RANDOM_LENGTH |-> 0]
      /\ lastTime' = [h \in Instances |-> r.lastTime]
      /\ lastRandom' = [h \in Instances |-> r.lastRandom]
      /\ history' = [history EXCEPT ![g] =
                       Append(@, [now |-> now,
                                  sameMs |-> (now = lastTime[g]),
                                  time |-> lastTime[g],
                                  before |-> lastRandom[g],
                                  bytes |-> bytes,
                                  out |-> r.out])]
      /\ UNCHANGED callVars

\* one call of generator g
Monotonic(g) ==
  \E now \in ClockSamples, bytes \in MonoDraws :
    LET r == MonotonicCall(lastTime[g], lastRandom[g], now, bytes) IN
      /\ TotalCalls < MaxCalls
      \* a call that reads lastTime again draws nothing
      /\ now = lastTime[g] => bytes = [i \in 1..RANDOM_LENGTH |-> 0]
      /\ lastTime' = [lastTime EXCEPT ![g] = r.lastTime]
      /\ lastRandom' = [lastRandom EXCEPT ![g] = r.lastRandom]
      /\ history' = [history EXCEPT ![g] =
                       Append(@, [now |-> now,
                                  sameMs |-> (now = lastTime[g]),
                                  time |-> lastTime[g],
                                  before |-> lastRandom[g],
                                  bytes |-> bytes,
                                  out |-> r.out])]
      /\ UNCHANGED callVars

Next == \E g \in Instances : Monotonic(g)

Spec == Init /\ [][Next]_vars

\* the call found the 16-digit counter at its maximum and had to increment it
Overflowed(h) == h.sameMs /\ h.before = Repeat("Z", RANDOM_LENGTH)

\* the call returned an identifier of 26 characters
FullIdentifier(h) == h.out.ok /\ Len(h.out.val) = ULID_LENGTH

(***************************************************************************)
(* C1: on one generator, whatever clock values the calls read, each        *)
(* returned identifier is lexicographically greater than the identifier    *)
(* (of 26 characters) returned by the previous call, as long as the        *)
(* counter has not overflowed.                                             *)
(***************************************************************************)
MonotonicStrictlyIncreasing ==
  \A g \in Instances : \A i \in 2..Len(history[g]) :
    (/\ FullIdentifier(history[g][i - 1]) /\ history[g][i].out.ok
     /\ \A k \in 1..i : ~Overflowed(history[g][k]))
      => StrLess(history[g][i - 1].out.val, history[g][i].out.val)

(***************************************************************************)
(* C2: on one generator, consecutive calls that all read the same          *)
(* millisecond return strictly increasing strings: every later one is      *)
(* greater than every earlier one, whatever 16-digit random portion the    *)
(* first of them carries.                                                  *)
(***************************************************************************)
SameMillisecondIncreasing ==
  \A g \in Instances : \A i, j \in 1..Len(history[g]) :
    (/\ i < j
     /\ \A k \in i..j : history[g][k].now = history[g][i].now
     /\ FullIdentifier(history[g][i])
     /\ \A k \in i..j : history[g][k].out.ok)
      => StrLess(history[g][i].out.val, history[g][j].out.val)

(***************************************************************************)
(* C3: a call that reads the same millisecond as the previous one while    *)
(* all 16 digits of lastRandom are 'Z' fails with an exhaustion error; it  *)
(* returns no identifier.                                                  *)
(***************************************************************************)
OverflowSurfaced ==
  \A g \in Instances : \A i \in 1..Len(history[g]) :
    Overflowed(history[g][i]) => ~history[g][i].out.ok

(***************************************************************************)
(* Inputs of the URN operations.                                           *)
(***************************************************************************)
DocId == << "0", "1", "A", "R", "Z", "3", "N", "D", "E", "K", "T", "S", "V", "4", "R", "R", "F", "F", "Q", "6", "9", "G", "5", "F", "A", "V" >>

AppSamples ==
  { << "c", "h", "a", "i" >>, << "C", "H", "A", "I" >>, << "C", "h", "a", "i" >>, << "a" >>, << "a", "1" >>, << "1", "a" >>, << >>, << "a", "b", "-", "c" >>,
    <<"a">> \o Repeat("9", 31), <<"a">> \o Repeat("9", 32) }

EntitySamples ==
  { << "p", "e", "r", "s", "o", "n" >>, << "P", "e", "r", "s", "o", "n" >>, << "u", "s", "e", "r", "-", "p", "r", "o", "f", "i", "l", "e" >>, << "p" >>, << "-", "p" >>, << >>,
    <<"e">> \o Repeat("-", 63), <<"e">> \o Repeat("-", 64) }

IdSamples ==
  { DocId, ToLowerCase(DocId), << "n", "o", "t", "-", "a", "-", "u", "l", "i", "d" >>, << >>,
    Repeat("I", ULID_LENGTH), Repeat("7", ULID_LENGTH - 1),
    Repeat("7", ULID_LENGTH + 1) }

Join3(a, e, i) == a \o <<":">> \o e \o <<":">> \o i

\* strings Urn.isValid and Urn.parse are asked about: three segments, and
\* strings with fewer or more colons
UrnStringSamples ==
  { Join3(a, e, i) : a \in AppSamples, e \in EntitySamples, i \in IdSamples }
    \cup { << >>, << "c", "h", "a", "i" >>, << "c", "h", "a", "i" >> \o <<":">> \o DocId,
           Join3(<< "c", "h", "a", "i" >>, << "p", "e", "r", "s", "o", "n" >>, DocId) \o <<":">> \o DocId,
           <<":">> \o Join3(<< "c", "h", "a", "i" >>, << "p", "e", "r", "s", "o", "n" >>, DocId) }

OptionSamples ==
  { [id |-> i, timestamp |-> t] :
      i \in { None } \cup { Some(x) : x \in IdSamples },
      t \in { None, Some(DocTime), Some(Num(2^23, 0)) } }

(***************************************************************************)
(* The URN operations as steps.  Urn.create is called on sampled arguments *)
(* or, after a successful Urn.parse, on the components that call returned. *)
(***************************************************************************)
UrnIsValidCall ==
  \E value \in UrnStringSamples :
    /\ call.op = "none"
    /\ call' = [op |-> "Urn.isValid", value |-> value,
                out |-> UrnIsValid(value)]
    /\ UNCHANGED <<prev, monoVars>>

UrnParseCall ==
  \E urn \in UrnStringSamples :
    /\ call.op = "none"
    /\ call' = [op |-> "Urn.parse", urn |-> urn, out |-> UrnParse(urn)]
    /\ UNCHANGED <<prev, monoVars>>

UrnCreateCall ==
  \E app \in AppSamples, entity \in EntitySamples, options \in OptionSamples,
     now \in ClockSamples, bytes \in GenerateDraws :
    /\ call.op = "none"
    /\ (options.id.some \/ options.timestamp.some) => now = Zero
    /\ options.id.some => bytes = [i \in 1..RANDOM_LENGTH |-> 0]
    /\ call' = [op |-> "Urn.create", app |-> app, entity |-> entity,
                options |-> options, now |-> now, bytes |-> bytes,
                out |-> UrnCreate(app, entity, options, now, bytes)]
    /\ prev' = call
    /\ UNCHANGED monoVars

UrnCreateFromParsed ==
  /\ call.op = "Urn.parse" /\ call.out.ok
  /\ LET c == call.out.val
         options == [id |-> Some(c.id), timestamp |-> None]
         bytes == [i \in 1..RANDOM_LENGTH |-> 0]
     IN call' = [op |-> "Urn.create", app |-> c.app, entity |-> c.entity,
                 options |-> options, now |-> Zero, bytes |-> bytes,
                 out |-> UrnCreate(c.app, c.entity, options, Zero, bytes)]
  /\ prev' = call
  /\ UNCHANGED monoVars

UrnCreateEffectCall ==
  \E app \in AppSamples, entity \in EntitySamples, options \in OptionSamples,
     now \in ClockSamples, bytes \in GenerateDraws :
    /\ call.op = "none"
    /\ (options.id.some \/ options.timestamp.some) => now = Zero
    /\ options.id.some => bytes = [i \in 1..RANDOM_LENGTH |-> 0]
    /\ call' = [op |-> "Urn.createEffect", app |-> app, entity |-> entity,
                options |-> options, now |-> now, bytes |-> bytes,
                out |-> UrnCreateEffect(app, entity, options, now, bytes)]
    /\ UNCHANGED <<prev, monoVars>>

UrnParseEffectCall ==
  \E value \in UrnStringSamples :
    /\ call.op = "none"
    /\ call' = [op |-> "Urn.parseEffect", value |-> value,
                out |-> UrnParseEffect(value)]
    /\ UNCHANGED <<prev, monoVars>>

UrnParseSafeCall ==
  \E value \in UrnStringSamples :
    /\ call.op = "none"
    /\ call' = [op |-> "Urn.parseSafe", value |-> value,
                out |-> UrnParseSafe(value)]
    /\ UNCHANGED <<prev, monoVars>>

\* URNs Urn.compare is asked about: two pairs of names, ids of three
\* timestamps, one of them in both cases
UrnCompareSamples ==
  { Join3(n[1], n[2], t \o r) :
      n \in { << << "c", "h", "a", "i" >>, << "p", "e", "r", "s", "o", "n" >> >>,
              << << "a" >>, << "p" >> >> },
      t \in { encodeTime(Num(0, 10), TIME_LENGTH).val,
              ToLowerCase(encodeTime(Num(0, 10), TIME_LENGTH).val),
              encodeTime(Num(0, 11), TIME_LENGTH).val,
              encodeTime(TIME_MAX, TIME_LENGTH).val },
      r \in { Repeat("0", RANDOM_LENGTH), Repeat("Z", RANDOM_LENGTH) } }

UrnCompareCall ==
  \E a, b \in UrnCompareSamples :
    /\ call.op = "none"
    /\ call' = [op |-> "Urn.compare", a |-> a, b |-> b,
                out |-> UrnCompare(a, b)]
    /\ UNCHANGED <<prev, monoVars>>

UrnForAppCall ==
  \E app \in AppSamples :
    /\ call.op = "none"
    /\ call' = [op |-> "Urn.forApp", app |-> app, out |-> UrnForApp(app)]
    /\ UNCHANGED <<prev, monoVars>>

\* a call of the closure the latest Urn.forApp call returned
UrnForAppApply ==
  \E entity \in EntitySamples, options \in OptionSamples,
     now \in ClockSamples, bytes \in GenerateDraws :
    /\ call.op = "Urn.forApp" /\ call.out.ok
    /\ (options.id.some \/ options.timestamp.some) => now = Zero
    /\ options.id.some => bytes = [i \in 1..RANDOM_LENGTH |-> 0]
    /\ call' = [op |-> "forApp.closure", entity |-> entity,
                options |-> options, now |-> now, bytes |-> bytes,
                out |-> ForAppClosure(call.out.val, entity, options, now,
                                      bytes)]
    /\ prev' = call
    /\ UNCHANGED monoVars

NextUrn ==
  \/ UrnIsValidCall \/ UrnParseCall \/ UrnCreateCall \/ UrnCreateFromParsed
  \/ UrnForAppCall \/ UrnForAppApply \/ UrnCompareCall
  \/ UrnParseEffectCall \/ UrnParseSafeCall \/ UrnCreateEffectCall

SpecUrn == Init /\ [][NextUrn]_vars

(***************************************************************************)
(* The URN grammar as the specification words it.                          *)
(***************************************************************************)
LowerLetters ==
  { "a", "b", "c", "d", "e", "f", "g", "h", "i", "j", "k", "l", "m",
    "n", "o", "p", "q", "r", "s", "t", "u", "v", "w", "x", "y", "z" }

Digits == { "0", "1", "2", "3", "4", "5", "6", "7", "8", "9" }

\* ^[a-z][a-z0-9]{0,31}$, lower case only
IsAppName(s) ==
  /\ Len(s) \in 1..32
  /\ s[1] \in LowerLetters
  /\ \A i \in 2..Len(s) : s[i] \in LowerLetters \cup Digits

\* ^[a-z][a-z0-9-]{0,63}$, lower case only
IsEntityName(s) ==
  /\ Len(s) \in 1..64
  /\ s[1] \in LowerLetters
  /\ \A i \in 2..Len(s) : s[i] \in LowerLetters \cup Digits \cup {"-"}

\* 26 symbols of the alphabet, in either case
IsUlidText(s) ==
  /\ Len(s) = 26
  /\ \A i \in 1..Len(s) :
       \E k \in DOMAIN ENCODING :
         s[i] = ENCODING[k] \/ s[i] = ToLowerChar(ENCODING[k])

\* s is app:entity:ulid
HasUrnForm(s) ==
  LET parts == Split(s) IN
    /\ Len(parts) = 3
    /\ IsAppName(parts[1])
    /\ IsEntityName(parts[2])
    /\ IsUlidText(parts[3])

(***************************************************************************)
(* C8: URN round trip: for every string u that Urn.isValid accepts,        *)
(* Urn.create on the app and entity of Urn.parse(u), with the id of        *)
(* Urn.parse(u) as options.id, succeeds and returns exactly u.             *)
(***************************************************************************)
UrnRoundTrip ==
  (call.op = "Urn.create" /\ prev.op = "Urn.parse")
    => call.out.ok /\ call.out.val = prev.urn

(***************************************************************************)
(* C9: Urn.isValid(s) is true exactly when s is app:entity:ulid with app   *)
(* and entity lower-case names and ulid the 26-character pattern in either *)
(* case; upper-case letters are accepted in the ulid segment only.         *)
(***************************************************************************)
UrnIsValidMatchesGrammar ==
  call.op = "Urn.isValid" => (call.out <=> HasUrnForm(call.value))

(***************************************************************************)
(* C10: Urn.create fails with INVALID_APP carrying app whenever app is not *)
(* an app name, also when entity is invalid too, and with INVALID_ENTITY   *)
(* carrying entity whenever app is valid and entity is not an entity name; *)
(* in both cases nothing is returned and no ULID is generated.             *)
(***************************************************************************)
CreateRejectsInvalidNames ==
  call.op = "Urn.create" =>
    /\ ~IsAppName(call.app) =>
         /\ ~call.out.ok /\ call.out.err = "UrnError"
         /\ call.out.code = "INVALID_APP" /\ call.out.value = call.app
         /\ ~call.out.generated
    /\ (IsAppName(call.app) /\ ~IsEntityName(call.entity)) =>
         /\ ~call.out.ok /\ call.out.err = "UrnError"
         /\ call.out.code = "INVALID_ENTITY" /\ call.out.value = call.entity
         /\ ~call.out.generated

\* a call with both names invalid and no id supplied has failed on the app
CreateRejectsInvalidNamesWitness ==
  /\ call.op = "Urn.create"
  /\ ~IsAppName(call.app) /\ ~IsEntityName(call.entity)
  /\ ~call.options.id.some
  /\ ~call.out.ok /\ call.out.code = "INVALID_APP"
  /\ call.out.value = call.app


(***************************************************************************)
(* C11: for every string s Urn.isValid accepts, Urn.parse(s) splits s on   *)
(* ':' into exactly three parts and returns app, entity and id that joined *)
(* by ':' give s again, with app an app name, entity an entity name and id *)
(* accepted by Ulid.isValid; for every other s it fails with INVALID_URN    *)
(* and returns no components.                                              *)
(***************************************************************************)
ParseReturnsComponents ==
  call.op = "Urn.parse" =>
    IF UrnIsValid(call.urn)
      THEN /\ call.out.ok
           /\ Len(Split(call.urn)) = 3
           /\ Join3(call.out.val.app, call.out.val.entity, call.out.val.id)
                = call.urn
           /\ IsAppName(call.out.val.app)
           /\ IsEntityName(call.out.val.entity)
           /\ UlidIsValid(call.out.val.id)
      ELSE /\ ~call.out.ok /\ call.out.err = "UrnError"
           /\ call.out.code = "INVALID_URN" /\ call.out.value = call.urn


\* Urn.parse of a returned URN gives back the names c was called with
ParsesBackTo(c) ==
  LET p == UrnParse(c.out.val) IN
    p.ok /\ p.val.app = c.app /\ p.val.entity = c.entity

CreateWithIdIgnoresTimestamp ==
  /\ call.op = "Urn.create"
  /\ call.options.id = Some(DocId)
  /\ call.options.timestamp = Some(Num(2^23, 0))
  /\ call.out.ok /\ ~call.out.generated
  /\ call.out.val = Join3(call.app, call.entity, DocId)


\* 32^length as a number
Pow32(length) ==
  IF length <= 4 THEN Num(0, 32^length) ELSE Num(32^(length - 5), 0)

\* value fits in length base-32 symbols
Representable(value, length) ==
  ~NumLess(value, Zero) /\ NumLess(value, Pow32(length))

FailsWithRangeError(c) == ~c.out.ok /\ c.out.err = "RangeError"

\* Ulid.generate(t) with t < 0 or t > 2^48-1 fails with RangeError
GenerateOutOfRangeFails ==
  (call.op = "Ulid.generate" /\ call.timestamp.some
     /\ ~InRange(call.timestamp.v))
    => FailsWithRangeError(call)

(***************************************************************************)
(* C13: encodeTime(value, width) fails with RangeError, returning no       *)
(* string, whenever value is negative or does not fit in width base-32     *)
(* symbols (for width 10: whenever it is greater than 2^48-1), and         *)
(* succeeds for every timestamp in 0..2^48-1 that fits; consequently       *)
(* Ulid.generate(t) with t < 0 or t > 2^48-1 fails with RangeError.        *)
(***************************************************************************)
EncodeTimeRangeChecked ==
  /\ call.op = "encodeTime" =>
       /\ ~Representable(call.timestamp, call.length)
            => FailsWithRangeError(call)
       /\ (call.length = TIME_LENGTH /\ ~InRange(call.timestamp))
            => FailsWithRangeError(call)
       /\ (InRange(call.timestamp)
             /\ Representable(call.timestamp, call.length))
            => call.out.ok /\ Len(call.out.val) = call.length
  /\ GenerateOutOfRangeFails

\* what encodeTime does check: the range 0..2^48-1 whatever the width; within
\* it the result has the width asked for
EncodeTimeChecksTimestampRange ==
  /\ call.op = "encodeTime" =>
       IF InRange(call.timestamp)
         THEN call.out.ok /\ Len(call.out.val) = call.length
         ELSE FailsWithRangeError(call)
  /\ GenerateOutOfRangeFails

\* 2^48 at the timestamp width has failed
EncodeTimeChecksTimestampRangeWitness ==
  /\ call.op = "encodeTime" /\ call.length = TIME_LENGTH
  /\ call.timestamp = Num(2^23, 0) /\ FailsWithRangeError(call)


(***************************************************************************)
(* C14: Urn.forApp(app) fails with INVALID_APP carrying app, at the call   *)
(* of forApp itself, when app is not an app name.  Otherwise it returns a  *)
(* closure, and the closure applied to (entity, options) has exactly the   *)
(* outcome of Urn.create(app, entity, options), INVALID_ENTITY for an      *)
(* invalid entity included; every URN it returns begins with that app.     *)
(***************************************************************************)
ForAppMatchesCreate ==
  /\ call.op = "Urn.forApp" =>
       IF IsAppName(call.app)
         THEN call.out.ok
         ELSE /\ ~call.out.ok /\ call.out.err = "UrnError"
              /\ call.out.code = "INVALID_APP" /\ call.out.value = call.app
  /\ call.op = "forApp.closure" =>
       /\ prev.op = "Urn.forApp" /\ IsAppName(prev.app)
       /\ call.out = UrnCreate(prev.app, call.entity, call.options, call.now,
                               call.bytes)
       /\ ~IsEntityName(call.entity) =>
            /\ ~call.out.ok /\ call.out.err = "UrnError"
            /\ call.out.code = "INVALID_ENTITY"
            /\ call.out.value = call.entity
       /\ call.out.ok =>
            SubSeq(call.out.val, 1, Len(prev.app) + 1) = prev.app \o <<":">>

\* a closure has returned a URN of its app with a generated id
ForAppMatchesCreateWitness ==
  /\ call.op = "forApp.closure" /\ call.out.ok
  /\ ~call.options.id.some
  /\ Split(call.out.val)[1] = prev.app

\* Urn.forApp has failed on an invalid app
ForAppRejectsApp ==
  /\ call.op = "Urn.forApp" /\ ~IsAppName(call.app)
  /\ ~call.out.ok /\ call.out.code = "INVALID_APP"

\* a closure has failed on an invalid entity
ForAppClosureRejectsEntity ==
  /\ call.op = "forApp.closure" /\ ~IsEntityName(call.entity)
  /\ ~call.out.ok /\ call.out.code = "INVALID_ENTITY"


\* the third part of a URN
IdPart(urn) == Split(urn)[3]

\* what C15 says of one call of Urn.compare
CompareFollowsUlid(c) ==
  /\ c.out.ok
  /\ c.out.val = UlidCompare(IdPart(c.a), IdPart(c.b))
  /\ IdPart(c.a) = IdPart(c.b) => c.out.val = 0
  /\ NumLess(UlidTimestamp(IdPart(c.a)).val, UlidTimestamp(IdPart(c.b)).val)
       => c.out.val = -1

(***************************************************************************)
(* C15: Urn.compare(a, b) equals Ulid.compare(Urn.id(a), Urn.id(b)): it    *)
(* depends on the embedded ULIDs only.  Two URNs of different app or       *)
(* entity with the same ULID compare as 0, and the URN with the smaller    *)
(* ULID timestamp compares as -1, also when its full string is the greater *)
(* one.                                                                    *)
(***************************************************************************)
UrnCompareByUlid ==
  (call.op = "Urn.compare" /\ UrnIsValid(call.a) /\ UrnIsValid(call.b))
    => CompareFollowsUlid(call)

\* on URNs whose ULIDs are upper-case Urn.compare does follow the ULIDs and
\* their timestamps
UrnCompareByUlidCanonical ==
  (call.op = "Urn.compare" /\ UrnIsValid(call.a) /\ UrnIsValid(call.b)
     /\ IdPart(call.a) = ToUpperCase(IdPart(call.a))
     /\ IdPart(call.b) = ToUpperCase(IdPart(call.b)))
    => CompareFollowsUlid(call)

\* a URN of app chai with the smaller timestamp compares as -1 with a URN of
\* app a, the smaller string
UrnCompareByUlidCanonicalWitness ==
  /\ call.op = "Urn.compare"
  /\ IdPart(call.a) = ToUpperCase(IdPart(call.a))
  /\ IdPart(call.b) = ToUpperCase(IdPart(call.b))
  /\ NumLess(UlidTimestamp(IdPart(call.a)).val,
             UlidTimestamp(IdPart(call.b)).val)
  /\ StrLess(call.b, call.a)
  /\ call.out = Ok(-1)


\* the string a parser was called with
ParserInput(c) == IF c.op = "Urn.parse" THEN c.urn ELSE c.value

(***************************************************************************)
(* C16: the three parsers agree on every string s.  When Urn.isValid(s) is *)
(* false, and only then, Urn.parse throws a UrnError with code             *)
(* INVALID_URN, Urn.parseEffect fails with a UrnError with code            *)
(* PARSE_ERROR and Urn.parseSafe returns None, each error carrying s as    *)
(* its value; when it is true the three yield the same components app,     *)
(* entity, id.                                                             *)
(***************************************************************************)
ParsersAgree ==
  call.op \in {"Urn.parse", "Urn.parseEffect", "Urn.parseSafe"} =>
    LET s == ParserInput(call)
        thrown == UrnParse(s)
        effect == UrnParseEffect(s)
        safe == UrnParseSafe(s)
    IN /\ call.out = (IF call.op = "Urn.parse" THEN thrown
                      ELSE IF call.op = "Urn.parseEffect" THEN effect
                      ELSE safe)
       /\ IF UrnIsValid(s)
            THEN /\ thrown.ok /\ effect.ok /\ safe.ok /\ safe.val.some
                 /\ thrown.val = [app |-> Split(s)[1], entity |-> Split(s)[2],
                                  id |-> Split(s)[3]]
                 /\ effect.val = thrown.val
                 /\ safe.val.v = thrown.val
            ELSE /\ ~thrown.ok /\ thrown.err = "UrnError"
                 /\ thrown.code = "INVALID_URN" /\ thrown.value = s
                 /\ ~effect.ok /\ effect.err = "UrnError"
                 /\ effect.code = "PARSE_ERROR" /\ effect.value = s
                 /\ safe = Ok(None)

\* Urn.parseEffect has failed with PARSE_ERROR on a string of three parts
\* that Urn.parse rejects with INVALID_URN
ParsersAgreeWitness ==
  /\ call.op = "Urn.parseEffect"
  /\ Len(Split(call.value)) = 3 /\ ~UrnIsValid(call.value)
  /\ ~call.out.ok /\ call.out.code = "PARSE_ERROR"
  /\ call.out.value = call.value
  /\ UrnParse(call.value).code = "INVALID_URN"

\* Urn.parseSafe has returned the components Urn.parse returns
ParseSafeReturnsComponents ==
  /\ call.op = "Urn.parseSafe" /\ UrnIsValid(call.value)
  /\ call.out.ok /\ call.out.val.some
  /\ call.out.val.v = UrnParse(call.value).val


(***************************************************************************)
(* The generators beside the stateless operations: a call of Ulid.generate *)
(* or of Urn.create may come between any two calls of the generators.      *)
(***************************************************************************)
GenerateBeside ==
  \E now \in { Num(0, 1) }, bytes \in { [i \in 1..RANDOM_LENGTH |-> 255] } :
    /\ call.op = "none"
    /\ call' = [op |-> "Ulid.generate", timestamp |-> None, now |-> now,
                bytes |-> bytes, out |-> UlidGenerate(None, now, bytes)]
    /\ prev' = call
    /\ UNCHANGED monoVars

UrnCreateBeside ==
  \E now \in { Num(0, 1) }, bytes \in { [i \in 1..RANDOM_LENGTH |-> 255] } :
    LET app == << "c", "h", "a", "i" >>
        entity == << "p", "e", "r", "s", "o", "n" >>
        options == [id |-> None, timestamp |-> None]
    IN /\ call.op = "none"
       /\ call' = [op |-> "Urn.create", app |-> app, entity |-> entity,
                   options |-> options, now |-> now, bytes |-> bytes,
                   out |-> UrnCreate(app, entity, options, now, bytes)]
       /\ prev' = call
       /\ UNCHANGED monoVars

NextFrame ==
  \/ \E g \in Instances : Monotonic(g)
  \/ GenerateBeside
  \/ UrnCreateBeside

SpecFrame == Init /\ [][NextFrame]_vars

\* the calls h of one generator made again on a generator of its own, from
\* the state (lt, lr) before call i: every outcome is the one recorded, and
\* the state after the last call is (endTime, endRandom)
RECURSIVE ReplayFrom(_, _, _, _, _, _)
ReplayFrom(h, i, lt, lr, endTime, endRandom) ==
  IF i > Len(h) THEN lt = endTime /\ lr = endRandom
  ELSE LET r == MonotonicCall(lt, lr, h[i].now, h[i].bytes) IN
         /\ h[i].out = r.out
         /\ h[i].before = lr
         /\ ReplayFrom(h, i + 1, r.lastTime, r.lastRandom, endTime, endRandom)

(***************************************************************************)
(* C17: the state (lastTime, lastRandom) of a generator is changed by the  *)
(* calls of that generator only: calls of another generator, of            *)
(* Ulid.generate or of Urn.create leave it as it is.  So, however the      *)
(* calls are interleaved, each generator is in the state, and has returned  *)
(* the sequence, that its own calls alone produce from the initial state   *)
(* with the same clock readings and random draws.                          *)
(***************************************************************************)
InstancesAreIsolated ==
  \A g \in Instances :
    ReplayFrom(history[g], 1, Zero, << >>, lastTime[g], lastRandom[g])

\* two generators in different states, the first called twice in one
\* millisecond, the second once, and Ulid.generate called beside them
InstancesAreIsolatedWitness ==
  /\ call.op = "Ulid.generate"
  /\ Len(history[1]) = 2 /\ Len(history[2]) = 1
  /\ history[1][2].sameMs /\ Len(history[1][2].before) = RANDOM_LENGTH
  /\ lastTime[1] # lastTime[2] /\ lastRandom[1] # lastRandom[2]


\* lastRandom of generator g after its call i
RandomAfter(g, i) ==
  IF i = Len(history[g]) THEN lastRandom[g] ELSE history[g][i + 1].before

\* after is before plus one, both read as numbers of 16 base-32 digits, the
\* most significant first: the rightmost digit of before that is not the last
\* symbol is replaced by the next symbol, the digits right of it become the
\* first symbol, the digits left of it stay
IsSuccessor(before, after) ==
  /\ Len(after) = RANDOM_LENGTH
  /\ \E p \in 1..RANDOM_LENGTH :
       /\ \A j \in (p + 1)..RANDOM_LENGTH :
            before[j] = ENCODING[32] /\ after[j] = ENCODING[1]
       /\ \E k \in 1..31 :
            before[p] = ENCODING[k] /\ after[p] = ENCODING[k + 1]
       /\ \A j \in 1..(p - 1) : after[j] = before[j]

\* the call read the clock value of the call before it and found 16 digits
\* that are not all 'Z'
IncrementCase(h) ==
  /\ h.sameMs /\ Len(h.before) = RANDOM_LENGTH
  /\ h.before # Repeat("Z", RANDOM_LENGTH)

(***************************************************************************)
(* C18: a call that reads the same millisecond as the call before it,      *)
(* lastRandom being 16 digits not all 'Z', leaves lastRandom one greater   *)
(* as a 16-digit big-endian base-32 number: the rightmost digit that is    *)
(* not 'Z' is replaced by the next symbol of the alphabet, every digit     *)
(* right of it becomes '0', the digits left of it stay, and the length     *)
(* stays 16.  The identifier returned carries the new lastRandom.          *)
(***************************************************************************)
IncrementAddsOne ==
  \A g \in Instances : \A i \in 1..Len(history[g]) :
    IncrementCase(history[g][i]) =>
      /\ IsSuccessor(history[g][i].before, RandomAfter(g, i))
      /\ history[g][i].out.ok
      /\ RandomPart(history[g][i].out.val) = RandomAfter(g, i)

\* a carry over fifteen digits: 0ZZZZZZZZZZZZZZZ has become 1000000000000000
IncrementAddsOneWitness ==
  \E g \in Instances : \E i \in 1..Len(history[g]) :
    /\ IncrementCase(history[g][i])
    /\ history[g][i].before = <<"0">> \o Repeat("Z", RANDOM_LENGTH - 1)
    /\ RandomAfter(g, i) = <<"1">> \o Repeat("0", RANDOM_LENGTH - 1)


\* lastTime of generator g after its call i
TimeAfter(g, i) ==
  IF i = Len(history[g]) THEN lastTime[g] ELSE history[g][i + 1].time

(***************************************************************************)
(* C19: after every call of a generator lastTime is the clock value the    *)
(* call read, and the first 10 characters of the identifier returned       *)
(* decode to that value.  A call whose clock value differs from lastTime,  *)
(* greater or smaller, replaces lastRandom by a fresh random draw; a call  *)
(* whose clock value equals lastTime, and no other, increments lastRandom. *)
(***************************************************************************)
ClockDecidesBranch ==
  \A g \in Instances : \A i \in 1..Len(history[g]) :
    LET h == history[g][i] IN
      /\ TimeAfter(g, i) = h.now
      /\ h.out.ok
      /\ decodeTime(TimePart(h.out.val)) = Ok(h.now)
      /\ h.now # h.time =>
           RandomAfter(g, i) = encodeRandom(h.bytes, RANDOM_LENGTH)
      /\ h.now = h.time =>
           /\ RandomAfter(g, i) = Increment(h.before, Len(h.before))
           /\ IncrementCase(h) => IsSuccessor(h.before, RandomAfter(g, i))

\* a call that read a clock value smaller than lastTime has set lastTime to
\* it and redrawn lastRandom
ClockDecidesBranchWitness ==
  \E g \in Instances : \E i \in 1..Len(history[g]) :
    LET h == history[g][i] IN
      /\ NumLess(h.now, h.time)
      /\ TimeAfter(g, i) = h.now
      /\ RandomAfter(g, i) = encodeRandom(h.bytes, RANDOM_LENGTH)
      /\ RandomAfter(g, i) # h.before
      /\ decodeTime(TimePart(h.out.val)) = Ok(h.now)


\* the clock values generator g read never went back
ClockNonDecreasing(g) ==
  \A k \in 2..Len(history[g]) :
    ~NumLess(history[g][k].now, history[g][k - 1].now)

NoOverflow(g) == \A k \in 1..Len(history[g]) : ~Overflowed(history[g][k])

\* no two calls of g found the same state, and no two returned the same
\* outcome
DistinctObservations(g) ==
  \A i, j \in 1..Len(history[g]) :
    i < j =>
      /\ << history[g][i].time, history[g][i].before >>
           # << history[g][j].time, history[g][j].before >>
      /\ history[g][i].out # history[g][j].out

(***************************************************************************)
(* C20: a call of a generator is one step, its reading of the clock, its   *)
(* comparison, its increment or redraw and its writing of the state not    *)
(* interleaved with another call's.  Hence, for callers sharing one        *)
(* generator, in any order of their calls, with a clock that never goes    *)
(* back and no overflow of the counter, no two calls observe the same pair *)
(* (lastTime, lastRandom) and no two calls return the same identifier.     *)
(***************************************************************************)
NoSharedObservation ==
  \A g \in Instances :
    (ClockNonDecreasing(g) /\ NoOverflow(g)) => DistinctObservations(g)

\* the same holds once the first call of the generator has read a clock
\* value other than 0, the initial lastTime
NoSharedObservationAfterEpoch ==
  \A g \in Instances :
    (/\ ClockNonDecreasing(g) /\ NoOverflow(g)
     /\ Len(history[g]) >= 1 => history[g][1].now # Zero)
      => DistinctObservations(g)

\* three calls of one generator in one millisecond other than 0 have observed
\* three states and returned three identifiers
NoSharedObservationAfterEpochWitness ==
  \E g \in Instances :
    /\ Len(history[g]) = 3
    /\ history[g][1].now # Zero
    /\ history[g][2].sameMs /\ history[g][3].sameMs
    /\ NoOverflow(g) /\ DistinctObservations(g)


\* every call of g so far returned a string of 26 characters that
\* Ulid.isValid accepts
ReturnsUlids(g) ==
  \A i \in 1..Len(history[g]) :
    /\ history[g][i].out.ok
    /\ Len(history[g][i].out.val) = ULID_LENGTH
    /\ UlidIsValid(history[g][i].out.val)

(***************************************************************************)
(* C21: every value a generator returns is a string of 26 characters that  *)
(* Ulid.isValid accepts, for every clock value in 0..2^48-1 and every      *)
(* call, the first call of a fresh generator (lastTime = 0, lastRandom     *)
(* empty) included.                                                        *)
(***************************************************************************)
MonotonicReturnsUlid == \A g \in Instances : ReturnsUlids(g)

\* the same holds of a generator whose first call read a clock value other
\* than 0, whatever the later calls read
MonotonicReturnsUlidAfterEpoch ==
  \A g \in Instances :
    (Len(history[g]) >= 1 /\ history[g][1].now # Zero) => ReturnsUlids(g)

\* a generator first called at clock 1, then at clock 0 twice, has returned
\* three identifiers
MonotonicReturnsUlidAfterEpochWitness ==
  \E g \in Instances :
    /\ Len(history[g]) = 3
    /\ history[g][1].now = Num(0, 1)
    /\ history[g][2].now = Zero /\ history[g][3].now = Zero
    /\ ReturnsUlids(g)


\* encodeTime on the timestamp of a call of Ulid.timestamp gives the time
\* portion of the identifier back, in upper case
ReencodesTimePart(c) ==
  encodeTime(c.out.val, TIME_LENGTH) = Ok(ToUpperCase(TimePart(c.ulid)))

(***************************************************************************)
(* C22: for every string id that Ulid.isValid accepts, Ulid.timestamp(id)  *)
(* lies in 0..2^48-1, and encodeTime(Ulid.timestamp(id), 10) succeeds and  *)
(* returns the first 10 characters of id in upper case.                    *)
(***************************************************************************)
TimestampWithin48Bits ==
  (call.op = "Ulid.timestamp" /\ UlidIsValid(call.ulid))
    => /\ call.out.ok
       /\ InRange(call.out.val)
       /\ ReencodesTimePart(call)

\* it does for the identifiers whose first character is one of 0..7, the
\* time portions that encodeTime produces
TimestampWithin48BitsCanonical ==
  (call.op = "Ulid.timestamp" /\ UlidIsValid(call.ulid)
     /\ call.ulid[1] \in {"0", "1", "2", "3", "4", "5", "6", "7"})
    => /\ call.out.ok
       /\ InRange(call.out.val)
       /\ ReencodesTimePart(call)

\* the timestamp of a lower-case identifier at the top of the range is
\* 2^48-1 and encodes to 7ZZZZZZZZZ
TimestampWithin48BitsCanonicalWitness ==
  /\ call.op = "Ulid.timestamp"
  /\ TimePart(call.ulid) = <<"7">> \o Repeat("z", TIME_LENGTH - 1)
  /\ call.out = Ok(TIME_MAX)
  /\ ReencodesTimePart(call)


\* options.id, when supplied, is of its type UlidType: a string that
\* Ulid.isValid accepts
IdIsUlid(options) == options.id.some => UlidIsValid(options.id.v)

(***************************************************************************)
(* C23, as stated: every string a successful Urn.create(app, entity,       *)
(* options) returns is accepted by Urn.isValid, also when the caller       *)
(* supplies options.id, so Urn.parse of a result of Urn.create never       *)
(* fails.                                                                  *)
(***************************************************************************)
CreatedIsValidAnyId ==
  (call.op = "Urn.create" /\ call.out.ok)
    => /\ UrnIsValid(call.out.val)
       /\ UrnParse(call.out.val).ok

(***************************************************************************)
(* C23, amended: every string a successful Urn.create(app, entity,         *)
(* options) returns is accepted by Urn.isValid and parsed by Urn.parse,    *)
(* provided options.id, when supplied, is a string Ulid.isValid accepts.   *)
(***************************************************************************)
CreatedIsValid ==
  (call.op = "Urn.create" /\ call.out.ok /\ IdIsUlid(call.options))
    => /\ UrnIsValid(call.out.val)
       /\ UrnParse(call.out.val).ok

\* a URN made of a supplied lower-case ULID is valid
CreatedIsValidWitness ==
  /\ call.op = "Urn.create" /\ call.out.ok
  /\ call.options.id = Some(ToLowerCase(DocId))
  /\ UrnIsValid(call.out.val)
  /\ UrnParse(call.out.val).val.id = ToLowerCase(DocId)

\* a string that is no ULID, passed as options.id against its type, comes
\* back inside a string that Urn.isValid rejects
CreatePassesIdThrough ==
  /\ call.op = "Urn.create" /\ call.out.ok
  /\ call.options.id.some /\ ~UlidIsValid(call.options.id.v)
  /\ ~UrnIsValid(call.out.val)


\* what a caller sees of a call: the value returned, the UrnError with its
\* code and value, or the name of another error (thrown, or a defect)
Outcome(o) ==
  IF o.ok THEN Ok(o.val)
  ELSE IF o.err = "UrnError" THEN UrnError(o.code, o.value)
  ELSE Throw(o.err)

\* the outcome of Urn.create on the arguments of call c
CreateOutcome(c) ==
  Outcome(UrnCreate(c.app, c.entity, c.options, c.now, c.bytes))

(***************************************************************************)
(* C24: Urn.createEffect and Urn.create have the same outcome for every    *)
(* app, entity and options: the same UrnError (INVALID_APP before          *)
(* INVALID_ENTITY) or the same string app:entity:id, options.id being used *)
(* when supplied.  In particular both succeed with the supplied id when    *)
(* options.id comes with an options.timestamp out of range.                *)
(***************************************************************************)
CreateEffectMatchesCreate ==
  call.op = "Urn.createEffect" =>
    /\ Outcome(call.out) = CreateOutcome(call)
    /\ (IsAppName(call.app) /\ IsEntityName(call.entity)
          /\ call.options.id.some)
         => call.out = [generated |-> call.out.generated]
                         @@ Ok(Join3(call.app, call.entity,
                                     call.options.id.v))

\* the two agree whenever options.timestamp is absent or in 0..2^48-1
CreateEffectMatchesCreateInRange ==
  (call.op = "Urn.createEffect"
     /\ (call.options.timestamp.some => InRange(call.options.timestamp.v)))
    => Outcome(call.out) = CreateOutcome(call)

\* Urn.createEffect has succeeded with a supplied id and a timestamp in range
CreateEffectMatchesCreateInRangeWitness ==
  /\ call.op = "Urn.createEffect"
  /\ call.options = [id |-> Some(DocId), timestamp |-> Some(DocTime)]
  /\ call.out.ok /\ call.out.generated
  /\ Outcome(call.out) = CreateOutcome(call)


\* what C25 says decodeChar returns for the character c
DecodesAsStated(c, out) ==
  IF \E i \in 0..31 : c = ENCODING[i + 1] \/ c = ToLowerChar(ENCODING[i + 1])
    THEN \E i \in 0..31 :
           /\ c = ENCODING[i + 1] \/ c = ToLowerChar(ENCODING[i + 1])
           /\ out = Ok(i)
  ELSE IF c \in {"I", "i", "L", "l"} THEN out = Ok(1)
  ELSE IF c \in {"O", "o"} THEN out = Ok(0)
  ELSE IF c \in {"U", "u"} THEN out = Ok(27) /\ ENCODING[27 + 1] = "V"
  ELSE ~out.ok /\ out.err = "Error"

(***************************************************************************)
(* C25: decodeChar is case-insensitive and total on the 36 letters and     *)
(* digits: for the alphabet symbol of index i, in either case, it returns  *)
(* i; for I and L it returns 1, for O it returns 0, for U it returns 27,   *)
(* the value of V; for every other character it fails with the error of an *)
(* invalid character.  So decodeChar(ENCODING[i]) = i for i in 0..31.      *)
(***************************************************************************)
DecodeCharMatchesAlphabet ==
  call.op = "decodeChar" => DecodesAsStated(call.char, call.out)

\* it does for every character of the table (code units 45..122)
DecodeCharMatchesAlphabetAscii ==
  (call.op = "decodeChar" /\ call.char \in Char)
    => DecodesAsStated(call.char, call.out)

\* u has decoded to 27
DecodeCharMatchesAlphabetAsciiWitness ==
  /\ call.op = "decodeChar" /\ call.char = "u"
  /\ call.out = Ok(27)


(***************************************************************************)
(* schema/pagination.  The counts are small enough for the division and    *)
(* the sum of createPaginationMeta to be exact.                            *)
(***************************************************************************)
\* Math.ceil(a / b) for integers a >= 0, b >= 1
MathCeilDiv(a, b) == IF a % b = 0 THEN a \div b ELSE (a \div b) + 1

\* Math.floor(a / b) for integers a >= 0, b >= 1
MathFloorDiv(a, b) == a \div b

\* createPaginationMeta with <= where the code has <
createPaginationMetaInclusive(total, limit, offset) ==
  LET totalPages == MathCeilDiv(total, limit)
      currentPage == MathFloorDiv(offset, limit) + 1
      hasMore == offset + limit <= total
  IN [total |-> total, limit |-> limit, offset |-> offset,
      hasMore |-> hasMore, totalPages |-> totalPages,
      currentPage |-> currentPage]

createPaginationMeta(total, limit, offset) ==
  LET totalPages == MathCeilDiv(total, limit)
      currentPage == MathFloorDiv(offset, limit) + 1
      hasMore == offset + limit < total
  IN [total |-> total, limit |-> limit, offset |-> offset,
      hasMore |-> hasMore, totalPages |-> totalPages,
      currentPage |-> currentPage]

CreatePaginationMetaCall ==
  \E total \in 0..MaxItems, limit \in 1..MaxItems, offset \in 0..MaxItems :
    /\ call.op = "none"
    /\ call' = [op |-> "createPaginationMeta", total |-> total,
                limit |-> limit, offset |-> offset,
                out |-> createPaginationMeta(total, limit, offset)]
    /\ UNCHANGED <<prev, monoVars>>

NextPagination == CreatePaginationMetaCall

SpecPagination == Init /\ [][NextPagination]_vars

(***************************************************************************)
(* C26: for integers total >= 0, limit >= 1, offset >= 0,                  *)
(* createPaginationMeta returns total, limit and offset unchanged,         *)
(* totalPages the ceiling of total / limit (the least number of pages of   *)
(* limit items that hold total items), currentPage the floor of            *)
(* offset / limit plus one, at least 1, and hasMore = (offset + limit <    *)
(* total); when offset is a multiple of limit, hasMore is true exactly     *)
(* when currentPage < totalPages.                                          *)
(***************************************************************************)
PaginationMetaCorrect ==
  call.op = "createPaginationMeta" =>
    LET m == call.out IN
      /\ m.total = call.total /\ m.limit = call.limit
      /\ m.offset = call.offset
      /\ m.totalPages \in Nat
      /\ m.totalPages * call.limit >= call.total
      /\ m.totalPages > 0 => (m.totalPages - 1) * call.limit < call.total
      /\ m.currentPage >= 1
      /\ (m.currentPage - 1) * call.limit <= call.offset
      /\ call.offset < m.currentPage * call.limit
      /\ m.hasMore <=> (call.offset + call.limit < call.total)
      /\ call.offset % call.limit = 0
           => (m.hasMore <=> m.currentPage < m.totalPages)

\* the second of three pages, the last page being partial
PaginationMetaCorrectWitness ==
  /\ call.op = "createPaginationMeta"
  /\ call.total = 7 /\ call.limit = 3 /\ call.offset = 3
  /\ call.out.totalPages = 3 /\ call.out.currentPage = 2
  /\ call.out.hasMore

\* the last full page of a total that is a multiple of limit has no more
PaginationLastPage ==
  /\ call.op = "createPaginationMeta"
  /\ call.total = 6 /\ call.limit = 3 /\ call.offset = 3
  /\ call.out.totalPages = 2 /\ call.out.currentPage = 2
  /\ ~call.out.hasMore

====
